---- MODULE Spec2Model ----
(***************************************************************************)
(* The Sudoku solver of sudoku.py as a state machine.                      *)
(*                                                                         *)
(* A Sudoku object holds the seed text (self.initial) and a board          *)
(* (self.sudoku, a dict from (row, col) to a digit).  solve() assigns the  *)
(* given digits one by one, each assignment cascading through the          *)
(* mutually recursive assign/eliminate pair, and then falls back to the    *)
(* recursive search.  The recursion is modelled with an explicit call      *)
(* stack, the dicts and possibility grids that the calls share by          *)
(* reference with an explicit heap, and a raised ValueError by unwinding   *)
(* the stack to the nearest try block of search.                           *)
(*                                                                         *)
(* Digits are the characters '1'..'9' of the code, written 1..9 here, and  *)
(* '0' (an unknown square) is written 0.                                   *)
(***************************************************************************)
EXTENDS Integers, Sequences, FiniteSets, TLC

\* range(9): the grid is 9 by 9
GridSize == 9

\* row // 3, col // 3: blocks are 3 by 3
BlockSize == 3

Indices == 0 .. (GridSize - 1)

\* all_row_col_combinations
all_row_col_combinations == Indices \X Indices

\* all_possibilities of generate_initial_possibilities
all_possibilities == 1 .. GridSize

-----------------------------------------------------------------------------
(* find_neighbors and the class attribute Sudoku.neighbors *)

\* the lower limit without the multiplication by 3
block_low_limit_unscaled(x) == x \div BlockSize

block_low_limit(x) == (x \div BlockSize) * BlockSize

row_neighborhood(row, col) == {<<row, i>> : i \in Indices \ {col}}

\* the column loop adding the same-row squares again
col_neighborhood_as_row(row, col) == {<<row, i>> : i \in Indices \ {col}}

col_neighborhood(row, col) == {<<i, col>> : i \in Indices \ {row}}

block_neighborhood(row, col) ==
    {sq \in (block_low_limit(row) .. block_low_limit(row) + BlockSize - 1)
            \X (block_low_limit(col) .. block_low_limit(col) + BlockSize - 1) :
        sq # <<row, col>>}

find_neighbors(row, col) ==
    << row_neighborhood(row, col) \cup col_neighborhood(row, col)
           \cup block_neighborhood(row, col),
       << row_neighborhood(row, col), col_neighborhood(row, col),
          block_neighborhood(row, col) >> >>

neighbors == [key \in all_row_col_combinations |-> find_neighbors(key[1], key[2])]

-----------------------------------------------------------------------------
(* The seeds: the texts handed to Sudoku(raw_text=...), after clean_raw_text,
   as tuples of 81 digits in row-major order *)

\* a valid complete grid from which seeds are cut
BaseGrid ==
    << 1,2,3,4,5,6,7,8,9,  4,5,6,7,8,9,1,2,3,  7,8,9,1,2,3,4,5,6,
       2,3,1,6,7,4,8,9,5,  8,7,5,9,1,2,3,6,4,  6,9,4,5,3,8,2,1,7,
       3,1,7,2,6,5,9,4,8,  5,4,2,8,9,7,6,3,1,  9,6,8,3,4,1,5,7,2 >>

\* the seed that keeps of BaseGrid the digits above k and blanks the others:
\* Blank(0) is the complete grid, Blank(GridSize) the all-zero seed
Blank(k) == [i \in 1 .. (GridSize * GridSize) |->
                IF BaseGrid[i] <= k THEN 0 ELSE BaseGrid[i]]

\* the text with the digit at position i replaced by d
With(text, i, d) == [text EXCEPT ![i] = d]

\* the first grid of the Project Euler 96 corpus read by tests.py
EulerGrid01 ==
    << 0,0,3,0,2,0,6,0,0,  9,0,0,3,0,5,0,0,1,  0,0,1,8,0,6,4,0,0,
       0,0,8,1,0,2,9,0,0,  7,0,0,0,0,0,0,0,8,  0,0,6,7,0,8,2,0,0,
       0,0,2,6,0,9,5,0,0,  8,0,0,2,0,3,0,0,9,  0,0,5,0,1,0,3,0,0 >>

\* a puzzle with 17 givens, which deduction alone does not solve
HardPuzzle ==
    << 4,0,0,0,0,0,8,0,5,  0,3,0,0,0,0,0,0,0,  0,0,0,7,0,0,0,0,0,
       0,2,0,0,0,0,0,6,0,  0,0,0,0,8,0,4,0,0,  0,0,0,0,1,0,0,0,0,
       0,0,0,6,0,3,0,7,0,  5,0,0,2,0,0,0,0,0,  1,0,4,0,0,0,0,0,0 >>

\* the blank seed with '5' at (0,0) and at (0,1)
TwoFives == With(With(Blank(GridSize), 1, 5), 2, 5)

Corpus == {EulerGrid01, HardPuzzle, TwoFives}

\* seeds blank the digits 1..k for k up to MaxBlankDigits
MaxBlankDigits == 2

\* a seed may have one position overwritten with a digit up to MaxOverrideDigit
MaxOverrideDigit == 2

\* the positions that may be overwritten: the squares (0,1) and (7,8)
OverridePositions == {2, 72}

\* hash seeds of a process run from 1 to MaxHashSeed
MaxHashSeed == 2

\* solve() is called at most MaxCalls times on one object
MaxCalls == 2

\* at most MaxRuns processes solve the same seed one after the other
MaxRuns == 2

BlankSeeds == {Blank(k) : k \in (0 .. MaxBlankDigits) \cup {GridSize}}

Seeds ==
    BlankSeeds
    \cup {With(text, i, d) : text \in BlankSeeds, i \in OverridePositions,
                             d \in 1 .. MaxOverrideDigit}
    \cup Corpus

-----------------------------------------------------------------------------
(* Iteration order of Python sets.  The order in which a set of digit strings
   or of coordinate tuples is iterated is not specified by the language and,
   for strings, changes with the hash seed of the process.  It is modelled
   by a hash seed chosen when the process starts: a set is iterated by
   increasing key, the key of an element being its multiple by a power of 6
   modulo a prime (11 for digits, 83 for squares).  Hash seed 1 iterates
   digits in ascending order and squares in row-major order. *)

DigitKey(h, d) == (d * 6 ^ (h - 1)) % 11

CellKey(h, sq) == ((sq[1] * GridSize + sq[2] + 1) * 6 ^ (h - 1)) % 83

NextDigit(h, S) == CHOOSE d \in S : \A e \in S : DigitKey(h, d) <= DigitKey(h, e)

NextCell(h, S) == CHOOSE sq \in S : \A t \in S : CellKey(h, sq) <= CellKey(h, t)

-----------------------------------------------------------------------------
(* Pure helpers of the class *)

\* Sudoku.parse_sudoku_text
parse_sudoku_text(sudoku_text) ==
    [sq \in {t \in all_row_col_combinations :
                sudoku_text[t[1] * GridSize + t[2] + 1] # 0} |->
        sudoku_text[sq[1] * GridSize + sq[2] + 1]]

\* Sudoku.generate_initial_possibilities
generate_initial_possibilities ==
    [row_index \in Indices |-> [col_index \in Indices |-> all_possibilities]]

\* a comparison that no board of 81 squares meets
is_solved_strict(sudoku_dict) == Cardinality(DOMAIN sudoku_dict) > GridSize * GridSize

\* Sudoku.is_solved
is_solved(sudoku_dict) == Cardinality(DOMAIN sudoku_dict) = GridSize * GridSize

\* dict item assignment d[key] = value
Put(d, key, value) ==
    [x \in (DOMAIN d) \cup {key} |-> IF x = key THEN value ELSE d[x]]

\* Sudoku.get_square_with_least_possibilities: the row-major scan keeps the
\* first unsolved square whose possibility set is strictly smaller
get_square_with_least_possibilities(possibilities, solution) ==
    LET unsolved == {sq \in all_row_col_combinations :
                        /\ sq \notin DOMAIN solution
                        /\ Cardinality(possibilities[sq[1]][sq[2]]) < 10}
        size(sq) == Cardinality(possibilities[sq[1]][sq[2]])
        least == {sq \in unsolved : \A t \in unsolved : size(sq) <= size(t)}
    IN  IF unsolved = {} THEN <<>>
        ELSE CHOOSE sq \in least : \A t \in least :
                 sq[1] * GridSize + sq[2] <= t[1] * GridSize + t[2]

-----------------------------------------------------------------------------
(* State *)

VARIABLES
    initial,    \* self.initial: the seed text
    hashseed,   \* the hash seed of the process, which fixes set iteration order
    heap,       \* the (possibilities, solution) pairs alive, by reference
    sudoku,     \* self.sudoku: a reference into the heap
    stack,      \* the call stack of solve(), innermost call last
    status,     \* "constructed", "running", "returned" or "raised"
    retval,     \* the reference returned by the search call that last returned
    calls,      \* how many times solve() was called on the object
    prev        \* the outcomes of the earlier processes run on the same seed

vars == <<initial, hashseed, heap, sudoku, stack, status, retval, calls, prev>>

\* the board of the object: self.sudoku
Board == heap[sudoku].solution

\* a call frame; a field a function does not use stays at its default
Frame(fn, env, sq, digit, pc, todo) ==
    [fn |-> fn, env |-> env, row |-> sq[1], col |-> sq[2], digit |-> digit,
     pc |-> pc, todo |-> todo, k |-> 1, trial |-> 0]

Top == stack[Len(stack)]

Pop(stk) == SubSeq(stk, 1, Len(stk) - 1)

\* the machine a call works on: the stack, the heap, the value returned and
\* whether a ValueError is being raised
Machine(stk, hp) == [stack |-> stk, heap |-> hp, retval |-> 0, exc |-> FALSE]

\* the caller's frame with its loop advanced past x, about to make a call
Advance(x) == Machine([stack EXCEPT ![Len(stack)].todo = @ \ {x}], heap)

-----------------------------------------------------------------------------
(* Calls: the part of a function that runs before its first loop *)

\* Sudoku.assign, lines 150-152: record the digit, collect the digits to discard
CallAssign(m, env, sq, digit_to_assign) ==
    LET hp == [m.heap EXCEPT ![env].solution = Put(@, sq, digit_to_assign)]
        digits_to_discard == hp[env].possibilities[sq[1]][sq[2]] \ {digit_to_assign}
    IN  [m EXCEPT !.heap = hp,
                  !.stack = Append(@, Frame("assign", env, sq, digit_to_assign,
                                            "loop", digits_to_discard))]

\* a square left with one digit tells no neighbor
NakedSingleTargetsNone(left, sq) == {}

\* Sudoku.eliminate, line 175: a square left with one digit sends it to all
\* its neighbors
NakedSingleTargets(left, sq) ==
    IF Cardinality(left) = 1 THEN neighbors[sq][1] ELSE {}

\* the guard is missing: every call goes on
already_discarded_never(p, digit) == FALSE

\* Sudoku.eliminate, line 163: the digit was already discarded from the square
already_discarded(p, digit) == digit \notin p

\* Sudoku.eliminate, lines 163-175: no-op, or discard the digit and fail on an
\* empty set
CallEliminate(m, env, sq, digit) ==
    LET p == m.heap[env].possibilities[sq[1]][sq[2]]
        left == p \ {digit}
        hp == [m.heap EXCEPT ![env].possibilities[sq[1]][sq[2]] = left]
    IN  IF already_discarded(p, digit) THEN m
        ELSE IF left = {} THEN [m EXCEPT !.heap = hp, !.exc = TRUE]
        ELSE [m EXCEPT !.heap = hp,
                       !.stack = Append(@, Frame("eliminate", env, sq, digit, "loop",
                                                 NakedSingleTargets(left, sq)))]

\* Sudoku.search, lines 200-204: return a solved board, or pick the square to
\* branch on and copy its possibilities
CallSearch(m, env) ==
    IF is_solved(m.heap[env].solution) THEN [m EXCEPT !.retval = env]
    ELSE LET most_deducted_square ==
                 get_square_with_least_possibilities(m.heap[env].possibilities,
                                                     m.heap[env].solution)
         IN  [m EXCEPT !.stack = Append(@,
                 Frame("search", env, most_deducted_square, 0, "loop",
                       m.heap[env].possibilities[most_deducted_square[1]]
                                                [most_deducted_square[2]]))]

\* the trial works on the caller's own pair
DeepcopyAlias(hp, env) == hp

\* deepcopy(solution), deepcopy(possibilities) of search: a new pair on the heap
Deepcopy(hp, env) == Append(hp, hp[env])

-----------------------------------------------------------------------------
(* Exceptions: a ValueError unwinds to the nearest search frame whose try
   block is running (lines 207-217), or out of solve() *)

\* the stack up to its innermost search frame that is inside its try block
Unwind(stk) ==
    LET handlers == {i \in 1 .. Len(stk) :
                        stk[i].fn = "search" /\ stk[i].pc \in {"assign", "search"}}
    IN  IF handlers = {} THEN <<>>
        ELSE SubSeq(stk, 1, CHOOSE i \in handlers : \A j \in handlers : j <= i)

\* the state after a step whose call left the machine m
Commit(call) ==
    \E m \in {call} :
    IF m.exc
    THEN \E stk \in {Unwind(m.stack)} :
         IF stk = <<>>
         THEN /\ stack' = <<>>
              /\ heap' = SubSeq(m.heap, 1, sudoku)
              /\ status' = "raised"
              /\ retval' = 0
         ELSE \* except ValueError: continue; the copies of the trial are dropped
              /\ stack' = [stk EXCEPT ![Len(stk)].pc = "loop"]
              /\ heap' = SubSeq(m.heap, 1, stk[Len(stk)].env)
              /\ status' = status
              /\ retval' = 0
    ELSE /\ stack' = m.stack
         /\ heap' = m.heap
         /\ status' = status
         /\ retval' = m.retval

-----------------------------------------------------------------------------
(* Initial state: Sudoku(raw_text=...) lines 84-87 *)

Init ==
    /\ initial \in Seeds
    /\ hashseed \in 1 .. MaxHashSeed
    /\ heap = << [possibilities |-> <<>>, solution |-> parse_sudoku_text(initial)] >>
    /\ sudoku = 1
    /\ stack = <<>>
    /\ status = "constructed"
    /\ retval = 0
    /\ calls = 0
    /\ prev = <<>>

-----------------------------------------------------------------------------
(* Sudoku.solve *)

\* solve() is called: lines 121-127
Solve ==
    /\ status \in {"constructed", "returned"}
    /\ calls < MaxCalls
    /\ calls' = calls + 1
    /\ retval' = 0
    /\ IF is_solved(Board)
       THEN /\ status' = "returned"
            /\ UNCHANGED <<heap, stack>>
       ELSE /\ status' = "running"
            /\ heap' = [heap EXCEPT ![sudoku].possibilities =
                                         generate_initial_possibilities]
            /\ stack' = << Frame("solve", sudoku, <<0, 0>>, 0, "loop", DOMAIN Board) >>
    /\ UNCHANGED <<initial, hashseed, sudoku, prev>>

\* lines 128-130: the next hinted square is assigned the digit the board now
\* holds for it
SolveNextKey ==
    /\ status = "running"
    /\ Top.fn = "solve" /\ Top.pc = "loop" /\ Top.todo # {}
    /\ LET square == NextCell(hashseed, Top.todo)
       IN  Commit(CallAssign(Advance(square), Top.env, square,
                             heap[Top.env].solution[square]))
    /\ UNCHANGED <<initial, hashseed, sudoku, calls, prev>>

\* lines 133-134: after the loop, search unless the board is complete
SolveAfterLoop ==
    /\ status = "running"
    /\ Top.fn = "solve" /\ Top.pc = "loop" /\ Top.todo = {}
    /\ IF is_solved(heap[Top.env].solution)
       THEN /\ status' = "returned"
            /\ stack' = <<>>
            /\ UNCHANGED <<heap, retval>>
       ELSE Commit(CallSearch(Machine([stack EXCEPT ![Len(stack)].pc = "search"], heap),
                              Top.env))
    /\ UNCHANGED <<initial, hashseed, sudoku, calls, prev>>

\* line 134: self.sudoku = the board search returned
SolveSearchReturned ==
    /\ status = "running"
    /\ Top.fn = "solve" /\ Top.pc = "search"
    /\ sudoku' = retval
    /\ status' = "returned"
    /\ stack' = <<>>
    /\ UNCHANGED <<initial, hashseed, heap, retval, calls, prev>>

-----------------------------------------------------------------------------
(* Sudoku.assign *)

\* lines 153-154: eliminate the next digit to discard
AssignNext ==
    /\ status = "running"
    /\ Top.fn = "assign" /\ Top.todo # {}
    /\ LET digit == NextDigit(hashseed, Top.todo)
       IN  Commit(CallEliminate(Advance(digit), Top.env, <<Top.row, Top.col>>, digit))
    /\ UNCHANGED <<initial, hashseed, sudoku, calls, prev>>

\* the loop of assign is over
AssignReturn ==
    /\ status = "running"
    /\ Top.fn = "assign" /\ Top.todo = {}
    /\ stack' = Pop(stack)
    /\ UNCHANGED <<initial, hashseed, heap, sudoku, status, retval, calls, prev>>

-----------------------------------------------------------------------------
(* Sudoku.eliminate *)

\* lines 176-177: the leftover digit, read again on each turn, is eliminated
\* from the next neighbor
EliminateNaked ==
    /\ status = "running"
    /\ Top.fn = "eliminate" /\ Top.todo # {}
    /\ LET neighbor == NextCell(hashseed, Top.todo)
           leftover == heap[Top.env].possibilities[Top.row][Top.col]
           least == CHOOSE d \in leftover : \A e \in leftover : d <= e
       IN  Commit(CallEliminate(Advance(neighbor), Top.env, neighbor, least))
    /\ UNCHANGED <<initial, hashseed, sudoku, calls, prev>>

\* only the squares not yet down to one digit are counted
possible_squares_unsolved(possibilities, neighborhood, digit) ==
    {sq \in neighborhood : /\ digit \in possibilities[sq[1]][sq[2]]
                           /\ Cardinality(possibilities[sq[1]][sq[2]]) > 1}

\* lines 183-185: the squares of a neighborhood that still list the digit
possible_squares_for_digit(possibilities, neighborhood, digit) ==
    {sq \in neighborhood : digit \in possibilities[sq[1]][sq[2]]}

\* lines 181-194: the next neighborhood of the square is checked for the digit
\* just eliminated
EliminateHidden ==
    /\ status = "running"
    /\ Top.fn = "eliminate" /\ Top.todo = {} /\ Top.k <= 3
    /\ LET squares == possible_squares_for_digit(heap[Top.env].possibilities,
                          neighbors[<<Top.row, Top.col>>][2][Top.k], Top.digit)
           m == Machine([stack EXCEPT ![Len(stack)].k = @ + 1], heap)
       IN  IF Cardinality(squares) = 0
           THEN Commit([m EXCEPT !.exc = TRUE])
           ELSE IF Cardinality(squares) = 1
           THEN LET square_for_digit == CHOOSE sq \in squares : TRUE
                    hp == [heap EXCEPT ![Top.env].solution =
                                           Put(@, square_for_digit, Top.digit)]
                IN  Commit(CallAssign([m EXCEPT !.heap = hp], Top.env,
                                      square_for_digit, Top.digit))
           ELSE Commit(m)
    /\ UNCHANGED <<initial, hashseed, sudoku, calls, prev>>

\* the three neighborhoods are done
EliminateReturn ==
    /\ status = "running"
    /\ Top.fn = "eliminate" /\ Top.todo = {} /\ Top.k > 3
    /\ stack' = Pop(stack)
    /\ UNCHANGED <<initial, hashseed, heap, sudoku, status, retval, calls, prev>>

-----------------------------------------------------------------------------
(* Sudoku.search *)

\* lines 206-213: the next possibility is assigned on copies
SearchTry ==
    /\ status = "running"
    /\ Top.fn = "search" /\ Top.pc = "loop" /\ Top.todo # {}
    /\ LET possibility == NextDigit(hashseed, Top.todo)
           hp == Deepcopy(heap, Top.env)
           stk == [stack EXCEPT ![Len(stack)] =
                      [@ EXCEPT !.todo = @ \ {possibility}, !.pc = "assign",
                                !.trial = Len(hp)]]
       IN  Commit(CallAssign(Machine(stk, hp), Len(hp), <<Top.row, Top.col>>,
                             possibility))
    /\ UNCHANGED <<initial, hashseed, sudoku, calls, prev>>

\* line 214: assign returned, search the copies
SearchRecurse ==
    /\ status = "running"
    /\ Top.fn = "search" /\ Top.pc = "assign"
    /\ Commit(CallSearch(Machine([stack EXCEPT ![Len(stack)].pc = "search"], heap),
                         Top.trial))
    /\ UNCHANGED <<initial, hashseed, sudoku, calls, prev>>

\* line 214: the recursive search returned a board, return it
SearchReturn ==
    /\ status = "running"
    /\ Top.fn = "search" /\ Top.pc = "search"
    /\ stack' = Pop(stack)
    /\ UNCHANGED <<initial, hashseed, heap, sudoku, status, retval, calls, prev>>

\* line 220: every possibility ended in a contradiction
SearchExhausted ==
    /\ status = "running"
    /\ Top.fn = "search" /\ Top.pc = "loop" /\ Top.todo = {}
    /\ Commit([Machine(Pop(stack), heap) EXCEPT !.exc = TRUE])
    /\ UNCHANGED <<initial, hashseed, sudoku, calls, prev>>

-----------------------------------------------------------------------------

Next ==
    \/ Solve
    \/ SolveNextKey
    \/ SolveAfterLoop
    \/ SolveSearchReturned
    \/ AssignNext
    \/ AssignReturn
    \/ EliminateNaked
    \/ EliminateHidden
    \/ EliminateReturn
    \/ SearchTry
    \/ SearchRecurse
    \/ SearchReturn
    \/ SearchExhausted

Spec == Init /\ [][Next]_vars

\* the seeds on which whole runs are followed to their end: the all-zero
\* seed, the hard puzzle, a contradictory seed and a complete grid
LiveSeeds == {Blank(GridSize), HardPuzzle, TwoFives, Blank(0)}

InitLive == Init /\ initial \in LiveSeeds

\* solve() runs to its end once called: the interpreter keeps executing
FairSpec == InitLive /\ [][Next]_vars /\ WF_vars(Next)

-----------------------------------------------------------------------------
(* A later process: the same text is parsed and solved again by a fresh
   interpreter, whose hash seed is its own *)

Restart ==
    /\ status \in {"returned", "raised"}
    /\ Len(prev) + 1 < MaxRuns
    /\ prev' = Append(prev, [status |-> status, board |-> Board])
    /\ hashseed' \in 1 .. MaxHashSeed
    /\ heap' = << [possibilities |-> <<>>, solution |-> parse_sudoku_text(initial)] >>
    /\ sudoku' = 1
    /\ stack' = <<>>
    /\ status' = "constructed"
    /\ retval' = 0
    /\ calls' = 0
    /\ UNCHANGED initial

\* the seeds solved by more than one process
RerunSeeds == {Blank(MaxBlankDigits), HardPuzzle}

InitRerun == Init /\ initial \in RerunSeeds

NextRerun == Next \/ Restart

SpecRerun == InitRerun /\ [][NextRerun]_vars

-----------------------------------------------------------------------------
(* Vocabulary of the properties.  The rules of the game are written here
   from the rows, columns and blocks themselves, not from Sudoku.neighbors. *)

Rows == {{<<r, c>> : c \in Indices} : r \in Indices}

Columns == {{<<r, c>> : r \in Indices} : c \in Indices}

Blocks == {{<<BlockSize * br + i, BlockSize * bc + j>> :
               i \in 0 .. (BlockSize - 1), j \in 0 .. (BlockSize - 1)} :
           br \in 0 .. (BlockSize - 1), bc \in 0 .. (BlockSize - 1)}

Units == Rows \cup Columns \cup Blocks

\* all 81 squares hold a digit and every row, column and block holds each
\* digit (hence each exactly once)
IsCompleteAndValid(board) ==
    /\ DOMAIN board = all_row_col_combinations
    /\ \A u \in Units : {board[sq] : sq \in u} = all_possibilities

\* the seed has an unknown square
HasUnknown(text) == \E i \in 1 .. (GridSize * GridSize) : text[i] = 0

\* the grid text read as a board
TextBoard(text) == [sq \in all_row_col_combinations |->
                       text[sq[1] * GridSize + sq[2] + 1]]

\* the board holds every given of the seed
KeepsGivens(board, text) ==
    \A sq \in DOMAIN parse_sudoku_text(text) :
        sq \in DOMAIN board /\ board[sq] = parse_sudoku_text(text)[sq]

-----------------------------------------------------------------------------
\* C1: for a seed with at least one unknown square, whenever solve() has
\* returned, the board has all 81 squares assigned and every row, column and
\* block holds each digit exactly once
C1_ReturnedBoardIsValid ==
    (status = "returned" /\ HasUnknown(initial)) => IsCompleteAndValid(Board)

\* solve() returned the board found by search, for a seed with unknown squares
C1_Witness ==
    /\ status = "returned"
    /\ HasUnknown(initial)
    /\ sudoku # 1
    /\ IsCompleteAndValid(Board)

-----------------------------------------------------------------------------
\* C7: solve() called on a board that is fully assigned and valid, or called
\* again after solve() returned, leaves the board as it is and raises nothing
C7_SolveOnSolvedIsNoOp ==
    [][ ( /\ calls' = calls + 1
          /\ \/ status = "returned"
             \/ status = "constructed" /\ IsCompleteAndValid(Board) )
        => (Board' = Board /\ status' = "returned") ]_vars

\* solve() was called a second time after it solved a seed with unknown squares
C7_Witness ==
    /\ calls >= 2
    /\ status = "returned"
    /\ HasUnknown(initial)
    /\ IsCompleteAndValid(Board)

-----------------------------------------------------------------------------
\* C8: while a call of search is on the stack, no step changes the possibility
\* grid or the board it was called with; so a trial that ends in a
\* contradiction leaves them as they were before the trial and every sibling
\* candidate starts from the same parent state
C8_TrialLeavesParentUntouched ==
    [][ \A i \in 1 .. Len(stack) :
          (stack[i].fn = "search" /\ i <= Len(stack') /\ stack'[i].fn = "search")
          => /\ stack'[i].env = stack[i].env
             /\ stack'[i].env <= Len(heap')
             /\ heap'[stack[i].env] = heap[stack[i].env] ]_vars

\* a trial has ended in a contradiction and search is back at its loop, with
\* a candidate still to try
C8_Witness ==
    /\ status = "running"
    /\ Top.fn = "search" /\ Top.pc = "loop" /\ Top.trial # 0 /\ Top.todo # {}
    /\ Top.todo \subseteq heap[Top.env].possibilities[Top.row][Top.col]

-----------------------------------------------------------------------------
\* the board and the possibility grid of a pair agree: a square is in the
\* board exactly when one digit is left for it, that digit is the board's, and
\* no neighbor lists it
Agree(pair) ==
    \A sq \in all_row_col_combinations :
        LET p == pair.possibilities[sq[1]][sq[2]] IN
        /\ sq \in DOMAIN pair.solution <=> Cardinality(p) = 1
        /\ sq \in DOMAIN pair.solution =>
              /\ p = {pair.solution[sq]}
              /\ \A n \in (Rows \cup Columns \cup Blocks) :
                    sq \in n => \A t \in n \ {sq} :
                        pair.solution[sq] \notin pair.possibilities[t[1]][t[2]]

\* C9: when solve() has assigned all givens without a contradiction, and when
\* search is entered, the board and the possibility grid agree
C9_BoardAgreesWithPossibilities ==
    /\ (status = "running" /\ Top.fn = "solve" /\ Top.pc = "loop" /\ Top.todo = {})
           => Agree(heap[Top.env])
    /\ (status = "running" /\ Top.fn = "search" /\ Top.pc = "assign")
           => Agree(heap[Top.trial])

\* search is about to be entered on a trial in which propagation has left
\* unsolved squares and has solved squares that were not given
C9_Witness ==
    /\ status = "running"
    /\ Top.fn = "search" /\ Top.pc = "assign"
    /\ ~is_solved(heap[Top.trial].solution)
    /\ Cardinality(DOMAIN heap[Top.trial].solution)
           > Cardinality(DOMAIN parse_sudoku_text(initial)) + Len(heap)
    /\ Agree(heap[Top.trial])

-----------------------------------------------------------------------------
\* the solution of EulerGrid01
EulerSolution ==
    << 4,8,3,9,2,1,6,5,7,  9,6,7,3,4,5,8,2,1,  2,5,1,8,7,6,4,9,3,
       5,4,8,1,3,2,9,7,6,  7,2,9,5,6,4,1,3,8,  1,3,6,7,9,8,2,4,5,
       3,7,2,6,8,9,5,1,4,  8,1,4,2,5,3,7,6,9,  6,9,5,4,1,7,3,8,2 >>

\* the solution of HardPuzzle
HardSolution ==
    << 4,1,7,3,6,9,8,2,5,  6,3,2,1,5,8,9,4,7,  9,5,8,7,2,4,3,1,6,
       8,2,5,4,3,7,1,6,9,  7,9,1,5,8,6,4,3,2,  3,4,6,9,1,2,7,5,8,
       2,8,9,6,4,3,5,7,1,  5,7,3,2,9,1,6,8,4,  1,6,4,8,7,5,2,9,3 >>

\* the grid with the digits a and b exchanged
Swap(grid, a, b) == [i \in DOMAIN grid |->
                        IF grid[i] = a THEN b ELSE IF grid[i] = b THEN a ELSE grid[i]]

\* complete grids against which a seed is known to have a completion
ReferenceGrids ==
    {Swap(BaseGrid, a, b) : a \in all_possibilities, b \in all_possibilities}
    \cup {EulerSolution, HardSolution}

\* some reference grid is a valid complete board that agrees with every given
\* of the seed: the seed has a valid completion
HasValidCompletion(text) ==
    \E g \in ReferenceGrids :
        /\ \A i \in DOMAIN text : text[i] # 0 => text[i] = g[i]
        /\ IsCompleteAndValid(TextBoard(g))

\* C3: for a seed that has a valid completion, no contradiction escapes
\* solve(), in whatever order the sets are iterated
C3_SolvableSeedNeverRaises ==
    status = "raised" => ~HasValidCompletion(initial)

\* solve() returned on the hard puzzle, which has a valid completion and whose
\* search runs into contradictions
C3_Witness ==
    /\ status = "returned"
    /\ initial = HardPuzzle
    /\ HasValidCompletion(initial)
    /\ KeepsGivens(Board, initial)

-----------------------------------------------------------------------------
\* C2: whenever solve() has returned, every given of the seed still holds its
\* seed digit in the board
C2_GivensKeptOnReturn ==
    status = "returned" => KeepsGivens(Board, initial)

-----------------------------------------------------------------------------
\* two squares of one row are given the same digit
SameRowDuplicate(text) ==
    \E r \in Indices : \E c1 \in Indices : \E c2 \in Indices \ {c1} :
        /\ text[r * GridSize + c1 + 1] # 0
        /\ text[r * GridSize + c1 + 1] = text[r * GridSize + c2 + 1]

\* C4: on a seed with the same digit given twice in a row, solve() does not
\* return, and when it has raised the board holds exactly the givens of the seed
C4_DuplicateSeedRaisesCleanly ==
    SameRowDuplicate(initial) =>
        /\ status # "returned"
        /\ status = "raised" => Board = parse_sudoku_text(initial)

-----------------------------------------------------------------------------
\* C5: a run of solve() that returns ends with the board that every earlier
\* returning run on the same seed ended with
C5_SameBoardOnEveryRun ==
    status = "returned" =>
        \A i \in 1 .. Len(prev) :
            prev[i].status = "returned" => prev[i].board = Board

-----------------------------------------------------------------------------
\* a call of eliminate that goes past its guard has taken its digit out of the
\* possibilities of its square, and no step puts a digit back into a
\* possibility set
CascadeShrinks ==
    /\ (Len(stack') = Len(stack) + 1 /\ stack'[Len(stack')].fn = "eliminate") =>
          LET f == stack'[Len(stack')] IN
          /\ f.env <= Len(heap)
          /\ f.digit \in heap[f.env].possibilities[f.row][f.col]
          /\ heap'[f.env].possibilities[f.row][f.col]
                 = heap[f.env].possibilities[f.row][f.col] \ {f.digit}
    /\ \A i \in 1 .. Len(heap) :
          (i <= Len(heap') /\ heap[i].possibilities # <<>> /\ status' = "running") =>
              \A sq \in all_row_col_combinations :
                  heap'[i].possibilities[sq[1]][sq[2]]
                      \subseteq heap[i].possibilities[sq[1]][sq[2]]

\* C6: every call of solve() ends, by returning or by raising; each call of
\* eliminate that changes anything shrinks a possibility set and none ever
\* grows; on the all-zero seed solve() does not raise and the board it returns
\* is complete and valid
C6_SolveTerminates ==
    /\ (status = "running") ~> (status \in {"returned", "raised"})
    /\ [][CascadeShrinks]_vars
    /\ [](initial = Blank(GridSize) =>
             /\ status # "raised"
             /\ status = "returned" => IsCompleteAndValid(Board))

\* solve() has returned on the all-zero seed
C6_Witness ==
    /\ initial = Blank(GridSize)
    /\ status = "returned"
    /\ calls = 1
    /\ IsCompleteAndValid(Board)

-----------------------------------------------------------------------------
\* C10 as stated: the table solve() has worked with holds, for every square,
\* three neighborhoods that are pairwise disjoint, have 8 coordinates each and
\* do not contain the square
C10_NeighborhoodsDisjoint ==
    status = "returned" =>
        \A key \in all_row_col_combinations :
            LET hoods == neighbors[key][2] IN
            /\ \A a \in 1 .. 3 : Cardinality(hoods[a]) = 8 /\ key \notin hoods[a]
            /\ \A a \in 1 .. 3 : \A b \in 1 .. 3 :
                   a # b => hoods[a] \cap hoods[b] = {}

\* C10 amended: the table solve() has worked with holds, for every square,
\* the 8 other squares of its row, the 8 other squares of its column and the
\* 8 other squares of its block; the row and column neighborhoods are
\* disjoint, the block neighborhood shares exactly 2 squares with the row
\* neighborhood and 2 with the column neighborhood, and the neighbor set is
\* their union, of 20 squares
C10_NeighborhoodsOverlapInBlock ==
    status = "returned" =>
        \A key \in all_row_col_combinations :
            LET hoods == neighbors[key][2] IN
            /\ \A a \in 1 .. 3 : Cardinality(hoods[a]) = 8 /\ key \notin hoods[a]
            /\ hoods[1] \cap hoods[2] = {}
            /\ Cardinality(hoods[3] \cap hoods[1]) = 2
            /\ Cardinality(hoods[3] \cap hoods[2]) = 2
            /\ neighbors[key][1] = hoods[1] \cup hoods[2] \cup hoods[3]
            /\ Cardinality(neighbors[key][1]) = 20
            /\ hoods[1] \in {u \ {key} : u \in Rows}
            /\ hoods[2] \in {u \ {key} : u \in Columns}
            /\ hoods[3] \in {u \ {key} : u \in Blocks}

\* solve() has returned a board found by search, having used the table, in
\* which every block neighborhood holds squares of the row neighborhood
C10_Witness ==
    /\ status = "returned"
    /\ sudoku # 1
    /\ \A key \in all_row_col_combinations :
           neighbors[key][2][3] \cap neighbors[key][2][1] # {}

====
